---- MODULE Spec2Model ----
(***************************************************************************)
(* Model of scripts/init-dynamodb-local.py: a one-shot script that         *)
(* imports boto3 (installing it with pip when the import fails), creates   *)
(* the DynamoDB Local table rag-document-locks and enables TTL on it.      *)
(*                                                                         *)
(* The state is the environment the script acts on (the table held by the  *)
(* DynamoDB endpoint, whether boto3 is importable, the requests issued to  *)
(* the endpoint) and, for every run of the script, its position in the     *)
(* file, what it printed and its exit status.                              *)
(*                                                                         *)
(* Spec     : the operator runs the script MaxRuns times, one run after    *)
(*            the other; every call may fail and a run may be interrupted. *)
(* SpecConc : the runs execute concurrently against one endpoint, the      *)
(*            table is absent at the start and nothing fails except the    *)
(*            service rejecting create_table on an existing table.         *)
(* FairSpecConc : SpecConc with every started process running to its end.  *)
(***************************************************************************)
EXTENDS Integers, Sequences, FiniteSets, TLC

\* Number of runs of the script that are modelled.
MaxRuns == 3

Runs == 1..MaxRuns

VARIABLES
    table,           \* the table rag-document-locks as the endpoint holds it
    boto3Installed,  \* whether `import boto3` succeeds in this environment
    requests,        \* the requests the runs issued to the endpoint, in order
    run,             \* per run: position in the script, counters, output, exit status
    faults           \* whether calls may fail and runs may be interrupted

vars == <<table, boto3Installed, requests, run, faults>>

-----------------------------------------------------------------------------
(* The table *)

TableName == "rag-document-locks"

KeySchema == <<[AttributeName |-> "doc_id", KeyType |-> "HASH"]>>

AttributeDefinitions == <<[AttributeName |-> "doc_id", AttributeType |-> "S"]>>

BillingMode == "PAY_PER_REQUEST"

TimeToLiveSpecification == [Enabled |-> TRUE, AttributeName |-> "expires_at"]

\* No table of that name at the endpoint.
AbsentTable ==
    [exists |-> FALSE, name |-> TableName, keySchema |-> <<>>, attrDefs |-> <<>>,
     billing |-> "", ttlEnabled |-> FALSE, ttlAttr |-> ""]

\* The table create_table(...) of lines 31-40 makes: TTL is off until it is set.
CreatedTable ==
    [exists |-> TRUE, name |-> TableName, keySchema |-> KeySchema,
     attrDefs |-> AttributeDefinitions, billing |-> BillingMode,
     ttlEnabled |-> FALSE, ttlAttr |-> ""]

\* The effect of update_time_to_live(...) of lines 48-54 on table t.
\* Variant: TTL set on the key attribute instead of expires_at.
MutWithTTLOnKeyAttribute(t) ==
    [t EXCEPT !.ttlEnabled = TimeToLiveSpecification.Enabled,
              !.ttlAttr = KeySchema[1].AttributeName]

WithTTL(t) ==
    [t EXCEPT !.ttlEnabled = TimeToLiveSpecification.Enabled,
              !.ttlAttr = TimeToLiveSpecification.AttributeName]

-----------------------------------------------------------------------------
(* Results of calls and the errors the script distinguishes *)

AlreadyExistsCode == "ResourceInUseException"

\* Service error codes other than the one the script recognises.
OtherCodes == {"LimitExceededException", "InternalServerError"}

ServiceCodes == {AlreadyExistsCode} \cup OtherCodes

\* An exception that is no ClientError: the endpoint cannot be reached.
TransportErrors == {"EndpointConnectionError"}

NoResult == [kind |-> "none", code |-> "", op |-> ""]

Ok(op) == [kind |-> "ok", code |-> "", op |-> op]

ClientError(code, op) == [kind |-> "ClientError", code |-> code, op |-> op]

OtherException(name, op) == [kind |-> "Exception", code |-> name, op |-> op]

\* str(e): botocore renders a ClientError with its code and operation, any
\* other exception with its own message.
Str(e) ==
    IF e.kind = "ClientError"
    THEN <<"An error occurred", e.code, "when calling the", e.op, "operation">>
    ELSE <<e.code>>

Msg(kind, text) == [kind |-> kind, text |-> text]

Line(kind) == Msg(kind, <<>>)

\* What the except clauses of lines 61-71 print for exception e, and the exit
\* status the run ends with (0: the script falls off its end).
\* Variant: no special case for ResourceInUseException.
MutHandleNoSpecialCase(e) ==
    IF e.kind = "ClientError"
    THEN [out |-> <<Msg("Error:", Str(e))>>, exit |-> 1]
    ELSE [out |-> <<Msg("Unexpected error:", Str(e))>>, exit |-> 1]

\* Variant: sys.exit(1) also after the already-exists warning.
MutHandleExitsOneAfterWarning(e) ==
    IF e.kind = "ClientError"
    THEN IF e.code = AlreadyExistsCode
         THEN [out |-> <<Line("Table already exists!"), Line("To delete and recreate:")>>,
               exit |-> 1]
         ELSE [out |-> <<Msg("Error:", Str(e))>>, exit |-> 1]
    ELSE [out |-> <<Msg("Unexpected error:", Str(e))>>, exit |-> 1]

Handle(e) ==
    IF e.kind = "ClientError"
    THEN IF e.code = AlreadyExistsCode
         THEN [out |-> <<Line("Table already exists!"), Line("To delete and recreate:")>>,
               exit |-> 0]
         ELSE [out |-> <<Msg("Error:", Str(e))>>, exit |-> 1]
    ELSE [out |-> <<Msg("Unexpected error:", Str(e))>>, exit |-> 1]

\* The table after the except clauses ran for exception e: they print (the
\* delete_table of line 65 is text of a hint) and issue no request.
\* Variant: the already-exists branch runs the delete_table it hints at.
MutExceptRunsDeleteHint(e, t) ==
    IF e.kind = "ClientError" /\ e.code = AlreadyExistsCode THEN AbsentTable ELSE t

ExceptEffect(e, t) == t

-----------------------------------------------------------------------------
(* The endpoint *)

\* What the endpoint answers to create_table when the request reaches it.
ServiceCreateTable(t) ==
    IF t.exists
    THEN [table |-> t, result |-> ClientError(AlreadyExistsCode, "CreateTable")]
    ELSE [table |-> CreatedTable, result |-> Ok("CreateTable")]

\* What the endpoint answers to update_time_to_live when the request reaches it.
ServiceUpdateTimeToLive(t) ==
    IF ~t.exists
    THEN [table |-> t, result |-> ClientError("ResourceNotFoundException", "UpdateTimeToLive")]
    ELSE IF t.ttlEnabled
    THEN [table |-> t, result |-> ClientError("ValidationException", "UpdateTimeToLive")]
    ELSE [table |-> WithTTL(t), result |-> Ok("UpdateTimeToLive")]

\* The ways a call may go wrong: not at all, a service error, or no answer.
NoFault == "none"

CreateFaults == IF faults THEN {NoFault} \cup OtherCodes \cup TransportErrors ELSE {NoFault}

TTLFaults == IF faults THEN {NoFault} \cup ServiceCodes \cup TransportErrors ELSE {NoFault}

\* The outcome of a call of operation op under fault f; answer is the endpoint's
\* own answer. A failed call leaves the table as it was.
Call(op, f, answer, t) ==
    IF f = NoFault THEN answer
    ELSE IF f \in ServiceCodes THEN [table |-> t, result |-> ClientError(f, op)]
    ELSE [table |-> t, result |-> OtherException(f, op)]

-----------------------------------------------------------------------------
(* A run of the script *)

NewRun ==
    [pc |-> "idle", firstImportOk |-> FALSE, installs |-> 0, imports |-> 0,
     installResult |-> "none",
     createResult |-> NoResult, ttlResult |-> NoResult, out |-> <<>>,
     exit |-> -1, ending |-> "", startTable |-> AbsentTable, endTable |-> AbsentTable]

Active(r) == run[r].pc \notin {"idle", "done"}

Terminated(r) == run[r].pc = "done"

\* The run ends: the process exits with the given status, in the given way.
End(rec, status, ending, t) ==
    [rec EXCEPT !.pc = "done", !.exit = status, !.ending = ending, !.endTable = t]

Say(rec, msgs) == [rec EXCEPT !.out = @ \o msgs]

\* The operator starts run r once the runs before it are over.
Start(r) ==
    /\ run[r].pc = "idle"
    /\ \A q \in Runs : q < r => Terminated(q)
    /\ run' = [run EXCEPT ![r] = [@ EXCEPT !.pc = "import", !.startTable = table]]
    /\ UNCHANGED <<table, boto3Installed, requests, faults>>

\* Run r is started whatever the other runs are doing.
StartConc(r) ==
    /\ run[r].pc = "idle"
    /\ run' = [run EXCEPT ![r] = [@ EXCEPT !.pc = "import", !.startTable = table]]
    /\ UNCHANGED <<table, boto3Installed, requests, faults>>

\* Where the script goes after the first import (lines 8-12).
\* Variant: pip install runs whether or not the import succeeded.
MutImportAlwaysInstalls(ok) == "install"

AfterFirstImport(ok) == IF ok THEN "client" ELSE "install"

\* Lines 8-12: import boto3; on ImportError announce the install.
Import(r) ==
    /\ run[r].pc = "import"
    /\ LET nxt == AfterFirstImport(boto3Installed)
           rec == [run[r] EXCEPT !.pc = nxt, !.imports = @ + 1,
                                 !.firstImportOk = boto3Installed]
       IN run' = [run EXCEPT ![r] =
                     IF nxt = "install" THEN Say(rec, <<Line("boto3 not installed. Installing...")>>)
                     ELSE rec]
    /\ UNCHANGED <<table, boto3Installed, requests, faults>>

\* Lines 13-14: subprocess.check_call(pip install boto3). A failing pip raises
\* CalledProcessError outside any try: the interpreter exits with status 1.
Install(r) ==
    /\ run[r].pc = "install"
    /\ \E ok \in (IF faults THEN BOOLEAN ELSE {TRUE}) :
          LET rec == [run[r] EXCEPT !.installs = @ + 1,
                                    !.installResult = IF ok THEN "ok" ELSE "failed"] IN
          IF ok
          THEN /\ boto3Installed' = TRUE
               /\ run' = [run EXCEPT ![r] = [rec EXCEPT !.pc = "reimport"]]
          ELSE /\ boto3Installed' = boto3Installed
               /\ run' = [run EXCEPT ![r] = End(rec, 1, "uncaught", table)]
    /\ UNCHANGED <<table, requests, faults>>

\* Lines 15-16: the import is tried again, outside any try.
ReImport(r) ==
    /\ run[r].pc = "reimport"
    /\ LET rec == [run[r] EXCEPT !.imports = @ + 1] IN
       run' = [run EXCEPT ![r] =
                  IF boto3Installed THEN [rec EXCEPT !.pc = "client"]
                  ELSE End(rec, 1, "uncaught", table)]
    /\ UNCHANGED <<table, boto3Installed, requests, faults>>

\* Lines 19-27: the client is built and the creation announced.
MakeClient(r) ==
    /\ run[r].pc = "client"
    /\ run' = [run EXCEPT ![r] =
                  Say([@ EXCEPT !.pc = "create"], <<Line("Creating DynamoDB table")>>)]
    /\ UNCHANGED <<table, boto3Installed, requests, faults>>

\* The table once a statement of the try block with result res is dealt with.
TableAfter(res, t) == IF res.kind = "ok" THEN t ELSE ExceptEffect(res, t)

\* Where the script goes when a statement inside the try block (lines 29-59)
\* had result res: on, or into the except clauses and out.
\* Variant: the already-exists branch goes on to enable TTL.
MutAfterCallRetriesTTLWhenExists(rec, res, onward, t) ==
    IF res.kind = "ok" THEN [rec EXCEPT !.pc = onward]
    ELSE IF rec.pc = "create" /\ res.kind = "ClientError" /\ res.code = AlreadyExistsCode
    THEN [rec EXCEPT !.pc = "ttl"]
    ELSE LET h == Handle(res) IN
         End(Say(rec, h.out), h.exit, IF h.exit = 0 THEN "exists" ELSE "error", t)

\* Variant: a non-service exception of create_table is passed over.
MutAfterCallSwallowsCreateException(rec, res, onward, t) ==
    IF res.kind = "ok" \/ (rec.pc = "create" /\ res.kind = "Exception")
    THEN [rec EXCEPT !.pc = onward]
    ELSE LET h == Handle(res) IN
         End(Say(rec, h.out), h.exit, IF h.exit = 0 THEN "exists" ELSE "error", t)

AfterCall(rec, res, onward, t) ==
    IF res.kind = "ok" THEN [rec EXCEPT !.pc = onward]
    ELSE LET h == Handle(res) IN
         End(Say(rec, h.out), h.exit, IF h.exit = 0 THEN "exists" ELSE "error", t)

\* Lines 31-40: dynamodb.create_table(...).
CreateTable(r) ==
    /\ run[r].pc = "create"
    /\ \E f \in CreateFaults :
          LET c == Call("CreateTable", f, ServiceCreateTable(table), table)
              rec == [run[r] EXCEPT !.createResult = c.result]
              t == TableAfter(c.result, c.table)
          IN /\ table' = t
             /\ run' = [run EXCEPT ![r] = AfterCall(rec, c.result, "report", t)]
    /\ requests' = Append(requests, [op |-> "CreateTable", by |-> r])
    /\ UNCHANGED <<boto3Installed, faults>>

\* Lines 42-47: the response is reported; a response without TableDescription,
\* TableArn or TableStatus raises KeyError inside the try block.
Report(r) ==
    /\ run[r].pc = "report"
    /\ \E wellFormed \in (IF faults THEN BOOLEAN ELSE {TRUE}) :
          run' = [run EXCEPT ![r] =
                     IF wellFormed
                     THEN Say([@ EXCEPT !.pc = "ttl"],
                              <<Line("Table created successfully!"), Line("Table ARN:"),
                                Line("Status:"), Line("Enabling TTL on 'expires_at' attribute...")>>)
                     ELSE AfterCall(Say(@, <<Line("Table created successfully!")>>),
                                    OtherException("KeyError", "response"), "ttl", table)]
    /\ UNCHANGED <<table, boto3Installed, requests, faults>>

\* Lines 48-59: dynamodb.update_time_to_live(...), then the closing lines and
\* the end of the script.
Finish(rec, t) ==
    End(Say(rec, <<Line("TTL enabled successfully!"), Line("DynamoDB Local is ready!")>>),
        0, "success", t)

EnableTTL(r) ==
    /\ run[r].pc = "ttl"
    /\ \E f \in TTLFaults :
          LET c == Call("UpdateTimeToLive", f, ServiceUpdateTimeToLive(table), table)
              rec == [run[r] EXCEPT !.ttlResult = c.result]
              t == TableAfter(c.result, c.table)
              nxt == AfterCall(rec, c.result, "finish", t)
          IN /\ table' = t
             /\ run' = [run EXCEPT ![r] =
                           IF nxt.pc = "finish" THEN Finish(nxt, t) ELSE nxt]
    /\ requests' = Append(requests, [op |-> "UpdateTimeToLive", by |-> r])
    /\ UNCHANGED <<boto3Installed, faults>>

\* The process is interrupted (KeyboardInterrupt is no Exception, line 69 does
\* not catch it; a kill is caught by nothing): it ends where it stands.
Interrupt(r) ==
    /\ faults
    /\ Active(r)
    /\ run' = [run EXCEPT ![r] = End(@, 130, "interrupted", table)]
    /\ UNCHANGED <<table, boto3Installed, requests, faults>>

Step(r) ==
    \/ Import(r)
    \/ Install(r)
    \/ ReImport(r)
    \/ MakeClient(r)
    \/ CreateTable(r)
    \/ Report(r)
    \/ EnableTTL(r)

-----------------------------------------------------------------------------
(* Specifications *)

\* The states a first run may find: no table, a table without TTL, a table
\* with TTL (the three states runs of the script leave behind).
InitialTables == {AbsentTable, CreatedTable, WithTTL(CreatedTable)}

Init ==
    /\ table \in InitialTables
    /\ boto3Installed \in BOOLEAN
    /\ requests = <<>>
    /\ run = [r \in Runs |-> NewRun]
    /\ faults = TRUE

Next == \E r \in Runs : Start(r) \/ Step(r) \/ Interrupt(r)

Spec == Init /\ [][Next]_vars

InitConc ==
    /\ table = AbsentTable
    /\ boto3Installed \in BOOLEAN
    /\ requests = <<>>
    /\ run = [r \in Runs |-> NewRun]
    /\ faults = FALSE

NextConc == \E r \in Runs : StartConc(r) \/ Step(r)

SpecConc == InitConc /\ [][NextConc]_vars

\* Every process that was started runs to its end.
FairSpecConc == SpecConc /\ \A r \in Runs : WF_vars(StartConc(r) \/ Step(r))

-----------------------------------------------------------------------------
(* Vocabulary of the properties *)

\* The number of requests of operation op that run r issued.
ReqCount(r, op) ==
    Cardinality({i \in DOMAIN requests : requests[i].by = r /\ requests[i].op = op})

ReqTotal(op) == Cardinality({i \in DOMAIN requests : requests[i].op = op})

\* Run r printed a line of the given kind.
Said(r, kind) == \E i \in DOMAIN run[r].out : run[r].out[i].kind = kind

\* Run r printed a line of the given kind that carries the given text.
SaidText(r, kind, text) ==
    \E i \in DOMAIN run[r].out : run[r].out[i] = [kind |-> kind, text |-> text]

SaidError(r) == Said(r, "Error:") \/ Said(r, "Unexpected error:")

Failed(res) == res.kind \in {"ClientError", "Exception"}

\* create_table of run r was rejected because the table exists.
CreateRejected(r) ==
    /\ run[r].createResult.kind = "ClientError"
    /\ run[r].createResult.code = "ResourceInUseException"

\* create_table of run r failed in any other way.
CreateFailedOtherwise(r) == Failed(run[r].createResult) /\ ~CreateRejected(r)

\* The table exists and TTL is not enabled on it.
Partial(t) == t.exists /\ ~t.ttlEnabled

\* The table as the script is to leave it.
Provisioned(t) ==
    /\ t.exists
    /\ t.keySchema = <<[AttributeName |-> "doc_id", KeyType |-> "HASH"]>>
    /\ t.attrDefs = <<[AttributeName |-> "doc_id", AttributeType |-> "S"]>>
    /\ t.billing = "PAY_PER_REQUEST"
    /\ t.ttlEnabled
    /\ t.ttlAttr = "expires_at"

AllTerminated == \A r \in Runs : Terminated(r)

-----------------------------------------------------------------------------
(* Properties *)

\* C1: a run whose create_table is rejected with ResourceInUseException prints
\* the already-exists warning, issues no update_time_to_live, leaves the
\* table's existence and TTL setting as they were before the run, and exits 0.
C1_AlreadyExists ==
    \A r \in Runs :
        CreateRejected(r) =>
            /\ Terminated(r)
            /\ run[r].exit = 0
            /\ Said(r, "Table already exists!")
            /\ ~SaidError(r)
            /\ ReqCount(r, "UpdateTimeToLive") = 0
            /\ run[r].startTable.exists
            /\ run[r].endTable.exists = run[r].startTable.exists
            /\ run[r].endTable.ttlEnabled = run[r].startTable.ttlEnabled
            /\ run[r].endTable.ttlAttr = run[r].startTable.ttlAttr

C1_Witness ==
    \E r \in Runs : CreateRejected(r) /\ Terminated(r) /\ ~run[r].startTable.ttlEnabled

\* C2: a run started with the table absent in which both service calls succeed
\* ends with the table existing, keyed by doc_id (HASH, string), billed per
\* request, TTL enabled on expires_at, and exits 0.
C2_FullSuccess ==
    \A r \in Runs :
        (/\ run[r].pc # "idle"
         /\ ~run[r].startTable.exists
         /\ run[r].createResult.kind = "ok"
         /\ run[r].ttlResult.kind = "ok")
        => /\ Terminated(r)
           /\ run[r].exit = 0
           /\ Provisioned(run[r].endTable)
           /\ Provisioned(table)

C2_Witness ==
    \E r \in Runs :
        /\ Terminated(r)
        /\ ~run[r].startTable.exists
        /\ run[r].createResult.kind = "ok"
        /\ run[r].ttlResult.kind = "ok"

\* C3 (as claimed): whenever update_time_to_live fails after create_table
\* succeeded, with any service error code or any other exception, the run
\* prints an error line and exits 1; no run that created the table and failed
\* to enable TTL exits 0.
C3_TTLFailureIsFatal ==
    \A r \in Runs :
        (run[r].createResult.kind = "ok" /\ Failed(run[r].ttlResult))
        => /\ Terminated(r)
           /\ run[r].exit = 1
           /\ SaidError(r)

\* C4 (as claimed): a run whose create_table fails with a service error other
\* than ResourceInUseException, or with a non-service exception, prints an
\* error message containing the error text and exits 1; exit status 0 comes
\* only from the full-success path and the already-exists path.
C4_CreateFailureIsFatal ==
    \A r \in Runs :
        /\ CreateFailedOtherwise(r)
           => /\ Terminated(r)
              /\ run[r].exit = 1
              /\ \/ SaidText(r, "Error:", Str(run[r].createResult))
                 \/ SaidText(r, "Unexpected error:", Str(run[r].createResult))
        /\ (Terminated(r) /\ run[r].exit = 0)
           => \/ run[r].createResult.kind = "ok" /\ run[r].ttlResult.kind = "ok"
              \/ CreateRejected(r)

\* C5: of two runs in sequence, the first started with the table absent and
\* on the success path: the first exits 0 having created the table and
\* enabled TTL; the second, once create_table is answered, exits 0 with the
\* already-exists warning and leaves the table as the first run left it.
C5_SecondRun ==
    \A r \in Runs :
        (~run[r].startTable.exists /\ Terminated(r) /\ run[r].ending = "success")
        => /\ run[r].exit = 0
           /\ Provisioned(run[r].endTable)
           /\ (r + 1) \in Runs
              => /\ run[r + 1].pc # "idle" => run[r + 1].startTable = run[r].endTable
                 /\ table = run[r].endTable
                 /\ (run[r + 1].createResult.kind # "none" /\ ~CreateFailedOtherwise(r + 1))
                    => /\ Terminated(r + 1)
                       /\ run[r + 1].exit = 0
                       /\ Said(r + 1, "Table already exists!")
                       /\ ReqCount(r + 1, "UpdateTimeToLive") = 0
                       /\ run[r + 1].endTable = run[r].endTable

C5_Witness ==
    \E r \in Runs :
        /\ (r + 1) \in Runs
        /\ ~run[r].startTable.exists
        /\ run[r].ending = "success"
        /\ Terminated(r + 1)
        /\ CreateRejected(r + 1)

\* C6: a run that ends after create_table succeeded and before
\* update_time_to_live succeeded leaves the table existing without TTL, and
\* nothing repairs it: every run started on a table without TTL issues no
\* update_time_to_live, reports already-exists once create_table is answered,
\* and leaves the table existing without TTL.
C6_NoRepair ==
    \A r \in Runs :
        /\ (Terminated(r) /\ run[r].createResult.kind = "ok" /\ run[r].ttlResult.kind # "ok")
           => Partial(run[r].endTable) /\ Partial(table)
        /\ (run[r].pc # "idle" /\ Partial(run[r].startTable))
           => /\ Partial(table)
              /\ table = run[r].startTable
              /\ ReqCount(r, "UpdateTimeToLive") = 0
              /\ run[r].createResult.kind # "ok"
              /\ (run[r].createResult.kind # "none" /\ ~CreateFailedOtherwise(r))
                 => /\ Terminated(r)
                    /\ run[r].exit = 0
                    /\ Said(r, "Table already exists!")
                    /\ Partial(run[r].endTable)

C6_Witness ==
    \E r \in Runs :
        /\ (r + 2) \in Runs
        /\ Terminated(r)
        /\ run[r].createResult.kind = "ok"
        /\ run[r].ttlResult.kind # "ok"
        /\ run[r].exit # 0
        /\ Terminated(r + 1) /\ CreateRejected(r + 1)
        /\ Terminated(r + 2) /\ CreateRejected(r + 2)
        /\ Partial(table)

\* C7: in every run update_time_to_live is called at most once, and only
\* after create_table returned successfully earlier in that run: never after
\* the already-exists warning or an error line, never before create_table.
C7_TTLOnlyAfterCreate ==
    \A r \in Runs :
        /\ ReqCount(r, "UpdateTimeToLive") <= 1
        /\ \A i \in DOMAIN requests :
              (requests[i].by = r /\ requests[i].op = "UpdateTimeToLive")
              => /\ \E j \in 1..(i - 1) :
                       requests[j].by = r /\ requests[j].op = "CreateTable"
                 /\ run[r].createResult.kind = "ok"
                 /\ Said(r, "Table created successfully!")
        /\ run[r].pc = "ttl"
           => run[r].createResult.kind = "ok" /\ ~Said(r, "Table already exists!") /\ ~SaidError(r)

C7_Witness ==
    \E r \in Runs : ReqCount(r, "UpdateTimeToLive") = 1 /\ Terminated(r)

\* C8: the script never deletes the table or changes what exists: the only
\* requests are create_table and update_time_to_live, a table that exists
\* keeps existing with its schema and billing mode, TTL is never switched off,
\* and a run that finds the table existing leaves the database as it found it.
C8_Frame ==
    /\ [](/\ \A i \in DOMAIN requests : requests[i].op \in {"CreateTable", "UpdateTimeToLive"}
          /\ \A r \in Runs :
                (run[r].pc # "idle" /\ run[r].startTable.exists)
                => /\ table = run[r].startTable
                   /\ Terminated(r) => run[r].endTable = run[r].startTable)
    /\ [][table.exists
          => /\ table'.exists
             /\ table'.name = table.name
             /\ table'.keySchema = table.keySchema
             /\ table'.attrDefs = table.attrDefs
             /\ table'.billing = table.billing
             /\ table.ttlEnabled => table' = table]_vars

C8_Witness ==
    \E r \in Runs :
        /\ Terminated(r)
        /\ run[r].startTable.exists
        /\ ReqCount(r, "CreateTable") = 1
        /\ \E q \in Runs : q < r /\ run[q].ending = "success"

\* C9: with boto3 absent at the first import a run makes exactly one install
\* attempt and, after it, exactly one import retry; with boto3 present it
\* makes no install attempt; a failed install is uncaught, so the run ends
\* with a non-zero status before any create_table or update_time_to_live.
C9_DependencyInstall ==
    \A r \in Runs :
        /\ run[r].installs <= 1
        /\ run[r].imports <= 2
        /\ (run[r].imports >= 1 /\ run[r].firstImportOk)
           => run[r].installs = 0 /\ run[r].imports = 1
        /\ (run[r].imports >= 1 /\ ~run[r].firstImportOk /\ run[r].ending # "interrupted")
           => /\ run[r].pc # "install" => run[r].installs = 1
              /\ run[r].pc \notin {"install", "reimport"}
                 => (run[r].imports = 2 <=> run[r].installResult = "ok")
        /\ run[r].imports = 2 => run[r].installs = 1 /\ run[r].installResult = "ok"
        /\ run[r].installResult = "failed"
           => /\ Terminated(r)
              /\ run[r].exit # 0
              /\ ReqCount(r, "CreateTable") = 0
              /\ ReqCount(r, "UpdateTimeToLive") = 0
        /\ ReqCount(r, "CreateTable") > 0
           => run[r].firstImportOk \/ (run[r].installs = 1 /\ run[r].imports = 2)

C9_Witness ==
    \E r, q \in Runs :
        /\ Terminated(r) /\ ~run[r].firstImportOk /\ run[r].installs = 1
        /\ run[r].imports = 2 /\ run[r].ending = "success"
        /\ Terminated(q) /\ run[q].installResult = "failed"

\* C10: with the runs concurrent, the table absent at the start and no failure
\* but the rejection of create_table on an existing table: at most one run
\* reaches the TTL step, update_time_to_live is issued once in total, every
\* run terminates with exit status 0 and the table ends with TTL enabled.
\* (That a run may exit 0 while TTL is not yet enabled is C10_Witness.)
C10_Concurrent ==
    /\ [](/\ Cardinality({r \in Runs : run[r].createResult.kind = "ok"}) <= 1
          /\ ReqTotal("UpdateTimeToLive") <= 1
          /\ \A r \in Runs : Terminated(r) => run[r].exit = 0
          /\ AllTerminated => ReqTotal("UpdateTimeToLive") = 1 /\ Provisioned(table))
    /\ <>AllTerminated

C10_Witness ==
    \E r \in Runs :
        /\ Terminated(r)
        /\ run[r].exit = 0
        /\ CreateRejected(r)
        /\ table.exists
        /\ ~table.ttlEnabled

====
